---- MODULE Spec2Model ----
(***************************************************************************)
(* The stats panel of the Pixel Streaming UI library                       *)
(* (Frontend/ui-library/src/UI/StatsPanel.ts): the registry of stats       *)
(* (statsMap), the elements it renders into the statsResult container,    *)
(* and the three handlers that feed it (handleStats, handleLatencyInfo,   *)
(* handlePlayerCount) through addOrUpdateStat.                            *)
(*                                                                         *)
(* JavaScript values are tagged records: Absent is a property the object   *)
(* does not own, Undefined the value undefined, NaN the number NaN and     *)
(* Num(n, d) the number n/d (a double with a fractional part is kept as an *)
(* exact fraction, so that Math.ceil has something to round).              *)
(***************************************************************************)
EXTENDS Integers, Sequences, FiniteSets, TLC

\* config       the sections the configuration enables (_config)
\* statsMap     the Map of stats, in its iteration order
\* elements     the innerHTML of every element created for a stat
\* statsResult  the children of the statsResult container, in order
\* writes       the innerHTML assignments of the most recent call, in order
\* last         the most recent call of a public method and its argument
\* calls        the number of calls made so far
VARIABLES config, statsMap, elements, statsResult, writes, last, calls

vars == <<config, statsMap, elements, statsResult, writes, last, calls>>

(***************************************************************************)
(* Bounds of the model: the player counts delivered and the number of      *)
(* calls a behaviour makes.                                                *)
(***************************************************************************)
MaxPlayers == 1
MaxCalls == 2

(***************************************************************************)
(* JavaScript values.                                                      *)
(***************************************************************************)
Absent == [t |-> "absent"]
Undefined == [t |-> "undefined"]
NaN == [t |-> "NaN"]
Num(n, d) == [t |-> "number", n |-> n, d |-> d]
Whole(n) == Num(n, 1)
Str(s) == [t |-> "string", s |-> s]

Null == [t |-> "null"]

\* x === undefined, for a property read: a property the object does not own
\* reads as undefined
IsUndefined(v) == v.t \in {"absent", "undefined"}

\* Object.prototype.hasOwnProperty.call(obj, name)
HasOwnProperty(v) == v.t # "absent"

\* if (x): a number is truthy unless it is 0 or NaN, a string unless empty
Truthy(v) ==
    CASE v.t = "number" -> v.n # 0
      [] v.t = "string" -> v.s # ""
      [] OTHER -> FALSE

\* Math.ceil of the fraction n/d, d > 0
MathCeil(n, d) == -((-n) \div d)

\* Number.prototype.toString: the shortest decimal of the number, for the
\* integers and the fractions with one decimal digit
RECURSIVE NumberToString(_)
NumberToString(v) ==
    IF v.t = "NaN" THEN "NaN"
    ELSE IF v.n < 0 THEN "-" \o NumberToString(Num(-v.n, v.d))
    ELSE IF v.n % v.d = 0 THEN ToString(v.n \div v.d)
    ELSE ToString(v.n \div v.d) \o "." \o ToString(((v.n % v.d) * 10) \div v.d)

\* `${x}` in a template literal and x?.toString() on an optional string
TemplateString(s) == IF s = Undefined THEN "undefined" ELSE s.s

(***************************************************************************)
(* The section gate (UIConfigurationTypes).                                *)
(***************************************************************************)
SessionStats == "Session Stats"
LatencyTest == "Latency Test"
DataChannelLatencyTest == "Data Channel Latency Test"
StatsSections == {SessionStats, LatencyTest, DataChannelLatencyTest}

isSectionEnabled(cfg, section) == section \in cfg

(***************************************************************************)
(* The panel: statsMap is the Map in its iteration order, elements the     *)
(* innerHTML of every element document.createElement returned (an element  *)
(* is its index), statsResult the children of the statsResult container,   *)
(* writes the innerHTML assignments made by the call in progress.          *)
(***************************************************************************)
Panel(m, e, r, w) == [statsMap |-> m, elements |-> e, statsResult |-> r, writes |-> w]

\* Map.prototype.has
MapHas(m, id) == \E i \in 1..Len(m) : m[i].id = id

\* Map.prototype.get, the position of the entry
MapIndex(m, id) == CHOOSE i \in 1..Len(m) : m[i].id = id

\* Map.prototype.get
MapGet(m, id) == m[MapIndex(m, id)]

\* the keys of the Map in iteration order
MapKeys(m) == [i \in 1..Len(m) |-> m[i].id]

\* new Stat() with its four fields assigned
NewStat(id, statLabel, stat, element) ==
    [id |-> id, title |-> statLabel, stat |-> stat, element |-> element]

\* the first branch of addOrUpdateStat: create the stat, append its element
\* to statsResult, set it in the Map
CreateStat(p, id, statLabel, stat, statHTML) ==
    LET element == Len(p.elements) + 1
    IN  Panel(Append(p.statsMap, NewStat(id, statLabel, stat, element)),
              Append(p.elements, statHTML),
              Append(p.statsResult, element),
              Append(p.writes, [id |-> id, html |-> statHTML]))

\* UpdateStat, had it deleted the entry and set it again: the stat moves to
\* the end of the Map
UpdateStatReinsert(p, id, statLabel, stat, statHTML) ==
    LET value == MapGet(p.statsMap, id)
        others == SelectSeq(p.statsMap, LAMBDA x : x.id # id)
    IN  Panel(Append(others, value),
              [p.elements EXCEPT ![value.element] = statHTML],
              p.statsResult,
              Append(p.writes, [id |-> id, html |-> statHTML]))

\* UpdateStat, had it appended to innerHTML (+=) instead of assigning it
UpdateStatAppendHtml(p, id, statLabel, stat, statHTML) ==
    LET value == MapGet(p.statsMap, id)
    IN  Panel(p.statsMap,
              [p.elements EXCEPT ![value.element] = @ \o statHTML],
              p.statsResult,
              Append(p.writes, [id |-> id, html |-> statHTML]))

\* the second branch of addOrUpdateStat: only the element of the stat is
\* written
UpdateStat(p, id, statLabel, stat, statHTML) ==
    LET value == MapGet(p.statsMap, id)
    IN  Panel(p.statsMap,
              [p.elements EXCEPT ![value.element] = statHTML],
              p.statsResult,
              Append(p.writes, [id |-> id, html |-> statHTML]))

\* addOrUpdateStat without its early return
addOrUpdateStatNoGate(p, cfg, id, statLabel, stat) ==
    LET statHTML == statLabel \o ": " \o TemplateString(stat)
    IN  IF ~MapHas(p.statsMap, id)
        THEN CreateStat(p, id, statLabel, stat, statHTML)
        ELSE UpdateStat(p, id, statLabel, stat, statHTML)

addOrUpdateStat(p, cfg, id, statLabel, stat) ==
    IF ~isSectionEnabled(cfg, SessionStats) THEN p
    ELSE LET statHTML == statLabel \o ": " \o TemplateString(stat)
         IN  IF ~MapHas(p.statsMap, id)
             THEN CreateStat(p, id, statLabel, stat, statHTML)
             ELSE UpdateStat(p, id, statLabel, stat, statHTML)

\* a call of addOrUpdateStat with its three arguments
Call(id, statLabel, stat) == [id |-> id, statLabel |-> statLabel, stat |-> stat]

\* the calls of addOrUpdateStat a handler makes, one after the other
RECURSIVE Apply(_, _, _)
Apply(p, cfg, cs) ==
    IF cs = <<>> THEN p
    ELSE Apply(addOrUpdateStat(p, cfg, Head(cs).id, Head(cs).statLabel, Head(cs).stat),
               cfg, Tail(cs))

\* the panel as a call finds it: the log of writes starts empty
Current == Panel(statsMap, elements, statsResult, <<>>)

\* the panel as a call leaves it
Becomes(p, op, arg) ==
    /\ calls < MaxCalls
    /\ calls' = calls + 1
    /\ statsMap' = p.statsMap
    /\ elements' = p.elements
    /\ statsResult' = p.statsResult
    /\ writes' = p.writes
    /\ last' = [op |-> op, arg |-> arg]
    /\ UNCHANGED config

(***************************************************************************)
(* handlePlayerCount                                                       *)
(***************************************************************************)
\* handlePlayerCount, had it written the stat whatever the configuration
handlePlayerCountUngated(p, cfg, playerCount) ==
    addOrUpdateStat(p, StatsSections, "PlayerCountStat", "Players",
                    Str(NumberToString(playerCount)))

handlePlayerCount(p, cfg, playerCount) ==
    addOrUpdateStat(p, cfg, "PlayerCountStat", "Players", Str(NumberToString(playerCount)))

HandlePlayerCount ==
    \E n \in 0..MaxPlayers :
        Becomes(handlePlayerCount(Current, config, Whole(n)), "handlePlayerCount", Whole(n))

(***************************************************************************)
(* addOrUpdateStat is public: a direct call                                *)
(***************************************************************************)
DirectIds == {"PlayerCountStat", "CustomStat"}
DirectLabels == {"Players", "Custom"}
DirectStats == {Str("1"), Str("7")}

AddOrUpdateStat ==
    \E id \in DirectIds, statLabel \in DirectLabels, stat \in DirectStats :
        Becomes(addOrUpdateStat(Current, config, id, statLabel, stat),
                "addOrUpdateStat", Call(id, statLabel, stat))

(***************************************************************************)
(* Formatting: MathUtils.formatBytes and the Intl.NumberFormat             *)
(* handleStats builds (maximumFractionDigits 0, an en-US navigator).       *)
(***************************************************************************)
\* three digits of a group of Intl.NumberFormat
Group3(n) ==
    IF n < 10 THEN "00" \o ToString(n)
    ELSE IF n < 100 THEN "0" \o ToString(n)
    ELSE ToString(n)

\* numberFormat.format of a whole number: groups of three digits
RECURSIVE FormatNatural(_)
FormatNatural(n) ==
    IF n < 1000 THEN ToString(n)
    ELSE FormatNatural(n \div 1000) \o "," \o Group3(n % 1000)

numberFormat(v) ==
    IF v.n < 0 THEN "-" \o FormatNatural((-v.n) \div v.d)
    ELSE FormatNatural(v.n \div v.d)

\* the unit of formatBytes and the bytes in one of it
RECURSIVE UnitIndex(_)
UnitIndex(bytes) == IF bytes < 1024 THEN 0 ELSE 1 + UnitIndex(bytes \div 1024)

RECURSIVE Pow1024(_)
Pow1024(i) == IF i = 0 THEN 1 ELSE 1024 * Pow1024(i - 1)

Sizes == <<"B", "KB", "MB", "GB", "TB">>

\* formatBytes(bytes, 2) of a whole number of bytes: the largest whole unit,
\* two fractional digits
formatBytes(v) ==
    LET i == UnitIndex(v.n)
        hundredths == (v.n * 100 + Pow1024(i) \div 2) \div Pow1024(i)
        frac == hundredths % 100
    IN  ToString(hundredths \div 100) \o "."
            \o (IF frac < 10 THEN "0" ELSE "") \o ToString(frac)
            \o " " \o Sizes[i + 1]

(***************************************************************************)
(* handleStats: the calls of addOrUpdateStat it makes for one              *)
(* AggregatedStats, field by field in the order of the code.  A field      *)
(* yields no call (<<>>) or one.                                           *)
(***************************************************************************)
InboundDataCall(stats) ==
    <<Call("InboundDataStat", "Received",
           Str(formatBytes(stats.inboundVideoStats.bytesReceived)))>>

\* PacketsLostCall, had it tested the value instead of the property
PacketsLostCallTruthy(stats) ==
    LET packetsLostStat ==
            IF Truthy(stats.inboundVideoStats.packetsLost)
            THEN numberFormat(stats.inboundVideoStats.packetsLost)
            ELSE "Chrome only"
    IN  <<Call("PacketsLostStat", "Packets Lost", Str(packetsLostStat))>>

PacketsLostCall(stats) ==
    LET packetsLostStat ==
            IF HasOwnProperty(stats.inboundVideoStats.packetsLost)
            THEN numberFormat(stats.inboundVideoStats.packetsLost)
            ELSE "Chrome only"
    IN  <<Call("PacketsLostStat", "Packets Lost", Str(packetsLostStat))>>

\* VideoBitrateCall, had it tested the property instead of the value
VideoBitrateCallOwnProperty(stats) ==
    IF HasOwnProperty(stats.inboundVideoStats.bitrate)
    THEN <<Call("VideoBitrateStat", "Video Bitrate (kbps)",
                Str(NumberToString(stats.inboundVideoStats.bitrate)))>>
    ELSE <<>>

VideoBitrateCall(stats) ==
    IF Truthy(stats.inboundVideoStats.bitrate)
    THEN <<Call("VideoBitrateStat", "Video Bitrate (kbps)",
                Str(NumberToString(stats.inboundVideoStats.bitrate)))>>
    ELSE <<>>

AudioBitrateCall(stats) ==
    IF Truthy(stats.inboundAudioStats.bitrate)
    THEN <<Call("AudioBitrateStat", "Audio Bitrate (kbps)",
                Str(NumberToString(stats.inboundAudioStats.bitrate)))>>
    ELSE <<>>

VideoResCall(stats) ==
    LET v == stats.inboundVideoStats
        resStat ==
            IF /\ HasOwnProperty(v.frameWidth) /\ Truthy(v.frameWidth)
               /\ HasOwnProperty(v.frameHeight) /\ Truthy(v.frameHeight)
            THEN NumberToString(v.frameWidth) \o "x" \o NumberToString(v.frameHeight)
            ELSE "Chrome only"
    IN  <<Call("VideoResStat", "Video resolution", Str(resStat))>>

FramesDecodedCall(stats) ==
    LET framesDecoded ==
            IF HasOwnProperty(stats.inboundVideoStats.framesDecoded)
            THEN numberFormat(stats.inboundVideoStats.framesDecoded)
            ELSE "Chrome only"
    IN  <<Call("FramesDecodedStat", "Frames Decoded", Str(framesDecoded))>>

FramerateCall(stats) ==
    IF Truthy(stats.inboundVideoStats.framesPerSecond)
    THEN <<Call("FramerateStat", "Framerate",
                Str(NumberToString(stats.inboundVideoStats.framesPerSecond)))>>
    ELSE <<>>

\* framesDropped?.toString(): undefined when the field is
FramesDroppedCall(stats) ==
    LET v == stats.inboundVideoStats.framesDropped
    IN  <<Call("FramesDroppedStat", "Frames dropped",
               IF IsUndefined(v) THEN Undefined ELSE Str(NumberToString(v)))>>

\* String.prototype.replace(prefix, '') on a mime type kept as its media
\* type prefix and the rest
MimeReplace(mimeType, prefix) ==
    IF mimeType.prefix = prefix THEN mimeType.rest ELSE mimeType.prefix \o mimeType.rest

\* stats.codecs.get(codecId)?.mimeType.replace(prefix, '') ?? ''
CodecName(stats, codecId, prefix) ==
    IF codecId.s \in DOMAIN stats.codecs
    THEN MimeReplace(stats.codecs[codecId.s], prefix)
    ELSE ""

VideoCodecCall(stats) ==
    IF Truthy(stats.inboundVideoStats.codecId)
    THEN <<Call("VideoCodecStat", "Video codec",
                Str(CodecName(stats, stats.inboundVideoStats.codecId, "video/")))>>
    ELSE <<>>

AudioCodecCall(stats) ==
    IF Truthy(stats.inboundAudioStats.codecId)
    THEN <<Call("AudioCodecStat", "Audio codec",
                Str(CodecName(stats, stats.inboundAudioStats.codecId, "audio/")))>>
    ELSE <<>>

\* new CandidatePairStats()
EmptyCandidatePair == [t |-> "pair", currentRoundTripTime |-> Absent]

\* stats.getActiveCandidatePair() != null ? ... : new CandidatePairStats()
ActiveCandidatePair(stats) ==
    IF stats.activeCandidatePair # Null THEN stats.activeCandidatePair ELSE EmptyCandidatePair

\* stats.isNumber
isNumber(v) == v.t = "number"

\* RTTCall, had it rounded with Math.round
RTTCallRound(stats) ==
    LET activeCandidatePair == ActiveCandidatePair(stats)
        rtt == activeCandidatePair.currentRoundTripTime
        netRTT ==
            IF HasOwnProperty(rtt) /\ isNumber(rtt)
            THEN ToString((rtt.n * 2000 + rtt.d) \div (2 * rtt.d))
            ELSE "Can't calculate"
    IN  <<Call("RTTStat", "Net RTT (ms)", Str(netRTT))>>

RTTCall(stats) ==
    LET activeCandidatePair == ActiveCandidatePair(stats)
        rtt == activeCandidatePair.currentRoundTripTime
        netRTT ==
            IF HasOwnProperty(rtt) /\ isNumber(rtt)
            THEN ToString(MathCeil(rtt.n * 1000, rtt.d))
            ELSE "Can't calculate"
    IN  <<Call("RTTStat", "Net RTT (ms)", Str(netRTT))>>

DurationCall(stats) ==
    <<Call("DurationStat", "Duration", stats.sessionStats.runTime)>>

ControlsInputCall(stats) ==
    <<Call("ControlsInputStat", "Controls stream input",
           stats.sessionStats.controlsStreamInput)>>

QPCall(stats) ==
    LET qp == stats.sessionStats.videoEncoderAvgQP
    IN  IF ~IsUndefined(qp) /\ qp # NaN
        THEN <<Call("QPStat", "Video quantization parameter", Str(NumberToString(qp)))>>
        ELSE <<>>

\* StatsCalls, had the round-trip time been written before the codecs
StatsCallsRTTFirst(stats) ==
    InboundDataCall(stats) \o PacketsLostCall(stats) \o VideoBitrateCall(stats)
        \o AudioBitrateCall(stats) \o VideoResCall(stats) \o FramesDecodedCall(stats)
        \o FramerateCall(stats) \o FramesDroppedCall(stats) \o RTTCall(stats)
        \o VideoCodecCall(stats) \o AudioCodecCall(stats) \o DurationCall(stats)
        \o ControlsInputCall(stats) \o QPCall(stats)

StatsCalls(stats) ==
    InboundDataCall(stats) \o PacketsLostCall(stats) \o VideoBitrateCall(stats)
        \o AudioBitrateCall(stats) \o VideoResCall(stats) \o FramesDecodedCall(stats)
        \o FramerateCall(stats) \o FramesDroppedCall(stats) \o VideoCodecCall(stats)
        \o AudioCodecCall(stats) \o RTTCall(stats) \o DurationCall(stats)
        \o ControlsInputCall(stats) \o QPCall(stats)

handleStats(p, cfg, stats) == Apply(p, cfg, StatsCalls(stats))

(***************************************************************************)
(* The AggregatedStats delivered to handleStats: a snapshot with every     *)
(* field reported, one with every optional field missing, and each of      *)
(* them with one field changed.                                            *)
(***************************************************************************)
Codecs == [c \in {"v1", "a1"} |->
             IF c = "v1" THEN [prefix |-> "video/", rest |-> "H264"]
             ELSE [prefix |-> "audio/", rest |-> "opus"]]

Pair(rtt) == [t |-> "pair", currentRoundTripTime |-> rtt]

FullStats ==
    [inboundVideoStats |->
        [bytesReceived |-> Whole(1048576), packetsLost |-> Whole(1234),
         bitrate |-> Whole(300), frameWidth |-> Whole(1920), frameHeight |-> Whole(1080),
         framesDecoded |-> Whole(90), framesPerSecond |-> Whole(60),
         framesDropped |-> Whole(2), codecId |-> Str("v1")],
     inboundAudioStats |-> [bitrate |-> Whole(64), codecId |-> Str("a1")],
     codecs |-> Codecs,
     activeCandidatePair |-> Pair(Num(235, 10000)),
     sessionStats |->
        [runTime |-> Str("00:01:05"), controlsStreamInput |-> Str("true"),
         videoEncoderAvgQP |-> Whole(23)]]

BareStats ==
    [inboundVideoStats |->
        [bytesReceived |-> Whole(0), packetsLost |-> Absent,
         bitrate |-> Absent, frameWidth |-> Absent, frameHeight |-> Absent,
         framesDecoded |-> Absent, framesPerSecond |-> Absent,
         framesDropped |-> Absent, codecId |-> Absent],
     inboundAudioStats |-> [bitrate |-> Absent, codecId |-> Absent],
     codecs |-> Codecs,
     activeCandidatePair |-> Null,
     sessionStats |->
        [runTime |-> Str("00:00:00"), controlsStreamInput |-> Str("false"),
         videoEncoderAvgQP |-> Absent]]

\* a snapshot with one field of its inbound video stats changed
VideoVariants(base) ==
    {[base EXCEPT !.inboundVideoStats.packetsLost = v] : v \in {Absent, Whole(0)}}
    \cup {[base EXCEPT !.inboundVideoStats.bitrate = v] : v \in {Absent, Whole(0), Whole(250)}}
    \cup {[base EXCEPT !.inboundVideoStats.frameWidth = v] : v \in {Whole(0)}}
    \cup {[base EXCEPT !.inboundVideoStats.framesDecoded = v] : v \in {Absent}}
    \cup {[base EXCEPT !.inboundVideoStats.framesPerSecond = v] :
            v \in {Absent, Whole(0), Num(599, 10)}}
    \cup {[base EXCEPT !.inboundVideoStats.framesDropped = v] : v \in {Absent}}
    \cup {[base EXCEPT !.inboundVideoStats.codecId = v] : v \in {Absent, Str("v9")}}

\* a snapshot with its active candidate pair changed
PairVariants(base) ==
    {[base EXCEPT !.activeCandidatePair = v] :
        v \in {Null, Pair(Absent), Pair(Undefined), Pair(Whole(0)),
               Pair(Num(24, 1000)), Pair(Num(1, 3))}}

\* a snapshot with one field of its audio stats or session stats changed
OtherVariants(base) ==
    {[base EXCEPT !.inboundAudioStats.bitrate = v] : v \in {Absent, Whole(0)}}
    \cup {[base EXCEPT !.inboundAudioStats.codecId = v] : v \in {Absent}}
    \cup {[base EXCEPT !.sessionStats.videoEncoderAvgQP = v] :
            v \in {Absent, NaN, Whole(0)}}

Snapshots ==
    {FullStats, BareStats} \cup VideoVariants(FullStats) \cup OtherVariants(FullStats)
        \cup PairVariants(FullStats) \cup PairVariants(BareStats)

HandleStats ==
    \E stats \in Snapshots :
        Becomes(handleStats(Current, config, stats), "handleStats", stats)

(***************************************************************************)
(* handleLatencyInfo                                                       *)
(***************************************************************************)
\* LatencyCall, had it compared with >= 0
LatencyCallNonNegative(field, id, statLabel) ==
    IF ~IsUndefined(field) /\ field.t = "number" /\ field.n >= 0
    THEN <<Call(id, statLabel, Str(ToString(MathCeil(field.n, field.d))))>>
    ELSE <<>>

\* one block of handleLatencyInfo: field !== undefined && field > 0
LatencyCall(field, id, statLabel) ==
    IF ~IsUndefined(field) /\ field.t = "number" /\ field.n > 0
    THEN <<Call(id, statLabel, Str(ToString(MathCeil(field.n, field.d))))>>
    ELSE <<>>

LatencyCalls(latencyInfo) ==
    LatencyCall(latencyInfo.SenderLatencyMs, "SenderSideLatency", "Sender latency (ms)")
        \o LatencyCall(latencyInfo.AverageAssemblyDelayMs, "AvgAssemblyDelay",
                       "Assembly delay (ms)")
        \o LatencyCall(latencyInfo.AverageDecodeLatencyMs, "AvgDecodeDelay",
                       "Decode time (ms)")
        \o LatencyCall(latencyInfo.AverageJitterBufferDelayMs, "AvgJitterBufferDelay",
                       "Jitter buffer (ms)")
        \o LatencyCall(latencyInfo.AverageProcessingDelayMs, "AvgProcessingDelay",
                       "Processing delay (ms)")
        \o LatencyCall(latencyInfo.AverageE2ELatency, "AvgE2ELatency", "Total latency (ms)")

handleLatencyInfo(p, cfg, latencyInfo) == Apply(p, cfg, LatencyCalls(latencyInfo))

LatencyFields ==
    {"SenderLatencyMs", "AverageAssemblyDelayMs", "AverageDecodeLatencyMs",
     "AverageJitterBufferDelayMs", "AverageProcessingDelayMs", "AverageE2ELatency"}

\* a LatencyInfo with every field measured, one with none, and each of them
\* with one field changed
FullLatency == [f \in LatencyFields |-> Num(3, 2)]
BareLatency == [f \in LatencyFields |-> Absent]

LatencyInfos ==
    {FullLatency, BareLatency}
    \cup {[FullLatency EXCEPT ![f] = v] : f \in LatencyFields, v \in {Absent, Whole(0)}}
    \cup {[FullLatency EXCEPT !.AverageDecodeLatencyMs = v] :
            v \in {Undefined, Num(-1, 2), Whole(7)}}
    \cup {[BareLatency EXCEPT ![f] = Num(21, 10)] : f \in LatencyFields}

HandleLatencyInfo ==
    \E latencyInfo \in LatencyInfos :
        Becomes(handleLatencyInfo(Current, config, latencyInfo),
                "handleLatencyInfo", latencyInfo)

Configs == {StatsSections, StatsSections \ {SessionStats}}

Init ==
    /\ config \in Configs
    /\ statsMap = <<>>
    /\ elements = <<>>
    /\ statsResult = <<>>
    /\ writes = <<>>
    /\ last = [op |-> "constructor", arg |-> Undefined]
    /\ calls = 0

Next ==
    \/ HandlePlayerCount
    \/ AddOrUpdateStat
    \/ HandleStats
    \/ HandleLatencyInfo

Spec == Init /\ [][Next]_vars

(***************************************************************************)
(* What the claims read.                                                   *)
(***************************************************************************)
Gate == isSectionEnabled(config, SessionStats)

\* the text the element of stat id shows
Html(id) == elements[MapGet(statsMap, id).element]

\* the same, <<>> when the registry has no stat id
Rendered(id) == IF MapHas(statsMap, id) THEN <<Html(id)>> ELSE <<>>

\* the ids the last call wrote, in the order it wrote them
WriteIds == [i \in 1..Len(writes) |-> writes[i].id]

Wrote(id) == \E i \in 1..Len(writes) : writes[i].id = id

\* the least integer not below n/d
CeilOf(n, d) == CHOOSE k \in (n \div d)..(n \div d + 1) : k * d >= n /\ (k - 1) * d < n

\* the rendered stat list: the text of the children of statsResult, in order
StatList == [i \in 1..Len(statsResult) |-> elements[statsResult[i]]]

(***************************************************************************)
(* C1: handlePlayerCount(n) upserts 'PlayerCountStat' with n stringified   *)
(* whatever the section configuration, the session-stats section disabled  *)
(* included, so that the registry holds an entry for it after the call.    *)
(* As claimed:                                                             *)
(***************************************************************************)
C1_Ungated ==
    last.op = "handlePlayerCount" =>
        /\ MapHas(statsMap, "PlayerCountStat")
        /\ Html("PlayerCountStat") = "Players: " \o ToString(last.arg.n)

(***************************************************************************)
(* C1 as amended: handlePlayerCount goes through the gate of               *)
(* addOrUpdateStat like every other upsert.  With the session-stats        *)
(* section enabled the registry holds 'PlayerCountStat' after the call and *)
(* its element shows n stringified; with it disabled the call writes       *)
(* nothing and the registry holds no such entry.                           *)
(***************************************************************************)
C1_Gated ==
    last.op = "handlePlayerCount" =>
        IF Gate
        THEN /\ MapHas(statsMap, "PlayerCountStat")
             /\ Html("PlayerCountStat") = "Players: " \o ToString(last.arg.n)
             /\ WriteIds = <<"PlayerCountStat">>
        ELSE /\ ~MapHas(statsMap, "PlayerCountStat")
             /\ writes = <<>>

C1_Witness ==
    /\ last.op = "handlePlayerCount"
    /\ ~Gate
    /\ last.arg = Whole(1)
    /\ statsMap = <<>>

(***************************************************************************)
(* C2: while the session-stats section is disabled, no handleStats and no  *)
(* handleLatencyInfo call changes the registry or the rendered stat list,  *)
(* whatever the snapshot.                                                  *)
(***************************************************************************)
C2_GateSuppresses ==
    [][(~Gate /\ last'.op \in {"handleStats", "handleLatencyInfo"}) =>
            /\ statsMap' = statsMap
            /\ StatList' = StatList
            /\ elements' = elements
            /\ writes' = <<>>]_vars

C2_Witness ==
    /\ ~Gate
    /\ calls = MaxCalls
    /\ last.op = "handleStats"
    /\ last.arg = FullStats
    /\ statsMap = <<>>
    /\ StatList = <<>>

(***************************************************************************)
(* C3: an upsert on an id already present leaves the registry's Stat for   *)
(* that id with the title and the value of the most recent upsert, its id  *)
(* unchanged and no second entry.  As claimed:                             *)
(***************************************************************************)
C3_StatReplaced ==
    (Gate /\ last.op = "addOrUpdateStat") =>
        /\ Cardinality({i \in 1..Len(statsMap) : statsMap[i].id = last.arg.id}) = 1
        /\ MapGet(statsMap, last.arg.id).title = last.arg.statLabel
        /\ MapGet(statsMap, last.arg.id).stat = last.arg.stat

(***************************************************************************)
(* C4: the iteration order of the registry, and the order of the rendered  *)
(* elements, is the order in which the ids were first inserted: a call     *)
(* keeps every entry where it was and appends the ids it sees for the      *)
(* first time, in the order it wrote them.                                 *)
(***************************************************************************)
\* the ids of the log w that keys does not hold, each once, in order
RECURSIVE FirstSeen(_, _)
FirstSeen(keys, w) ==
    IF w = <<>> THEN <<>>
    ELSE IF \E i \in 1..Len(keys) : keys[i] = Head(w).id
         THEN FirstSeen(keys, Tail(w))
         ELSE <<Head(w).id>> \o FirstSeen(Append(keys, Head(w).id), Tail(w))

C4_InsertionOrder ==
    [][/\ MapKeys(statsMap') = MapKeys(statsMap) \o FirstSeen(MapKeys(statsMap), writes')
       /\ statsResult' = [i \in 1..Len(statsMap') |-> statsMap'[i].element]
       /\ SubSeq(statsResult', 1, Len(statsResult)) = statsResult]_vars

\* a first snapshot inserted the eight stats it always writes, a second one
\* updated them where they were and appended the six it writes when it can
C4_Witness ==
    /\ last.op = "handleStats"
    /\ Len(statsMap) = 14
    /\ SubSeq(MapKeys(statsMap), 1, 4) =
            <<"InboundDataStat", "PacketsLostStat", "VideoResStat", "FramesDecodedStat">>
    /\ SubSeq(MapKeys(statsMap), 9, 14) =
            <<"VideoBitrateStat", "AudioBitrateStat", "FramerateStat", "VideoCodecStat",
              "AudioCodecStat", "QPStat">>
    /\ SubSeq(StatList, 1, 3) =
            <<"Received: 1.00 MB", "Packets Lost: 1,234", "Video resolution: 1920x1080">>
    /\ Len(writes) = 14

(***************************************************************************)
(* C5: upsert is idempotent.  From every reachable panel, a second         *)
(* addOrUpdateStat with the same (id, title, value) leaves the registry,   *)
(* the text of every stat and the order as the first call left them.       *)
(***************************************************************************)
C5_Idempotent ==
    \A id \in DirectIds, statLabel \in DirectLabels, stat \in DirectStats :
        LET once == addOrUpdateStat(Current, config, id, statLabel, stat)
            twice == addOrUpdateStat(once, config, id, statLabel, stat)
        IN  /\ twice.statsMap = once.statsMap
            /\ twice.elements = once.elements
            /\ twice.statsResult = once.statsResult

C5_Witness ==
    /\ Gate
    /\ calls = MaxCalls
    /\ last.op = "addOrUpdateStat"
    /\ last.arg = Call("CustomStat", "Custom", Str("7"))
    /\ statsMap = <<NewStat("CustomStat", "Custom", Str("7"), 1)>>
    /\ StatList = <<"Custom: 7">>
(***************************************************************************)
(* C6: handleLatencyInfo upserts each of its six fields under the id of    *)
(* the field if and only if the field is defined and strictly positive,    *)
(* with the field rounded up to whole milliseconds; for a field that is    *)
(* absent or not positive it writes nothing for that id and the stat keeps *)
(* the text it showed (or stays out of the registry).                      *)
(***************************************************************************)
LatencyId ==
    [f \in LatencyFields |->
        CASE f = "SenderLatencyMs" -> "SenderSideLatency"
          [] f = "AverageAssemblyDelayMs" -> "AvgAssemblyDelay"
          [] f = "AverageDecodeLatencyMs" -> "AvgDecodeDelay"
          [] f = "AverageJitterBufferDelayMs" -> "AvgJitterBufferDelay"
          [] f = "AverageProcessingDelayMs" -> "AvgProcessingDelay"
          [] f = "AverageE2ELatency" -> "AvgE2ELatency"]

LatencyTitle ==
    [f \in LatencyFields |->
        CASE f = "SenderLatencyMs" -> "Sender latency (ms)"
          [] f = "AverageAssemblyDelayMs" -> "Assembly delay (ms)"
          [] f = "AverageDecodeLatencyMs" -> "Decode time (ms)"
          [] f = "AverageJitterBufferDelayMs" -> "Jitter buffer (ms)"
          [] f = "AverageProcessingDelayMs" -> "Processing delay (ms)"
          [] f = "AverageE2ELatency" -> "Total latency (ms)"]

Positive(v) == v.t = "number" /\ v.n > 0

C6_LatencyFields ==
    [][(Gate /\ last'.op = "handleLatencyInfo") =>
        \A f \in LatencyFields :
            IF Positive(last'.arg[f])
            THEN /\ Wrote(LatencyId[f])'
                 /\ Rendered(LatencyId[f])' =
                        <<LatencyTitle[f] \o ": "
                            \o ToString(CeilOf(last'.arg[f].n, last'.arg[f].d))>>
            ELSE /\ ~Wrote(LatencyId[f])'
                 /\ Rendered(LatencyId[f])' = Rendered(LatencyId[f])]_vars

\* a decode latency of 0 after one of 1.5 ms: the decode time still shows 2
\* while the other five stats are written
C6_Witness ==
    /\ calls = MaxCalls
    /\ last.op = "handleLatencyInfo"
    /\ last.arg = [FullLatency EXCEPT !.AverageDecodeLatencyMs = Whole(0)]
    /\ Rendered("AvgDecodeDelay") = <<"Decode time (ms): 2">>
    /\ Len(writes) = 5

(***************************************************************************)
(* C7: every handleStats call that passes the gate upserts 'RTTStat': with *)
(* ceil(rtt * 1000) when an active candidate pair exists and its           *)
(* currentRoundTripTime is present and numeric (0.0235 s gives "24"), with *)
(* "Can't calculate" otherwise, over whatever an earlier snapshot showed.  *)
(***************************************************************************)
C7_RoundTripTime ==
    (Gate /\ last.op = "handleStats") =>
        LET pair == last.arg.activeCandidatePair
            numeric == pair # Null /\ pair.currentRoundTripTime.t = "number"
        IN  /\ Wrote("RTTStat")
            /\ Rendered("RTTStat") =
                 <<"Net RTT (ms): " \o
                    (IF numeric
                     THEN ToString(CeilOf(pair.currentRoundTripTime.n * 1000,
                                          pair.currentRoundTripTime.d))
                     ELSE "Can't calculate")>>
            /\ (pair = Pair(Num(235, 10000)) => Html("RTTStat") = "Net RTT (ms): 24")

\* a snapshot without an active candidate pair after one whose round-trip
\* time was 0.0235 s (the registry still holds the "24" of the first)
C7_Witness ==
    /\ last.op = "handleStats"
    /\ last.arg.activeCandidatePair = Null
    /\ MapHas(statsMap, "RTTStat")
    /\ MapGet(statsMap, "RTTStat").stat = Str("24")
    /\ Html("RTTStat") = "Net RTT (ms): Can't calculate"

(***************************************************************************)
(* C8: every handleStats call that passes the gate upserts                 *)
(* 'PacketsLostStat': with "Chrome only" when the inbound video stats have *)
(* no packetsLost field, with the formatted integer, never the sentinel,   *)
(* when they have one, 0 included.                                         *)
(***************************************************************************)
C8_PacketsLost ==
    (Gate /\ last.op = "handleStats") =>
        LET packetsLost == last.arg.inboundVideoStats.packetsLost
        IN  /\ Wrote("PacketsLostStat")
            /\ IF packetsLost = Absent
               THEN Html("PacketsLostStat") = "Packets Lost: Chrome only"
               ELSE /\ Html("PacketsLostStat") # "Packets Lost: Chrome only"
                    /\ Html("PacketsLostStat") =
                         "Packets Lost: " \o
                            (CASE packetsLost.n = 0 -> "0"
                               [] packetsLost.n = 1234 -> "1,234")

\* a snapshot that lost 0 packets after one without the field
C8_Witness ==
    /\ last.op = "handleStats"
    /\ last.arg.inboundVideoStats.packetsLost = Whole(0)
    /\ MapHas(statsMap, "PacketsLostStat")
    /\ MapGet(statsMap, "PacketsLostStat").stat = Str("Chrome only")
    /\ Html("PacketsLostStat") = "Packets Lost: 0"

(***************************************************************************)
(* C9: handleStats upserts the video bitrate, the audio bitrate and the    *)
(* framerate only when the value of the snapshot is truthy; when it is     *)
(* absent or zero it writes nothing for that id: a stat shown before keeps *)
(* its text, a stat never shown stays out of the registry.                 *)
(***************************************************************************)
C9_Value(stats, id) ==
    CASE id = "VideoBitrateStat" -> stats.inboundVideoStats.bitrate
      [] id = "AudioBitrateStat" -> stats.inboundAudioStats.bitrate
      [] id = "FramerateStat" -> stats.inboundVideoStats.framesPerSecond

C9_TruthyOnly ==
    [][(Gate /\ last'.op = "handleStats") =>
        \A id \in {"VideoBitrateStat", "AudioBitrateStat", "FramerateStat"} :
            LET v == C9_Value(last'.arg, id)
            IN  IF v.t = "number" /\ v.n # 0
                THEN Wrote(id)' /\ MapHas(statsMap, id)'
                ELSE /\ ~Wrote(id)'
                     /\ Rendered(id)' = Rendered(id)]_vars

\* a video bitrate of 0 after one of 300 kbps: the stat still shows 300
C9_Witness ==
    /\ calls = MaxCalls
    /\ last.op = "handleStats"
    /\ last.arg.inboundVideoStats.bitrate = Whole(0)
    /\ Rendered("VideoBitrateStat") = <<"Video Bitrate (kbps): 300">>
    /\ ~Wrote("VideoBitrateStat")
    /\ Wrote("AudioBitrateStat")

(***************************************************************************)
(* C10: the ids one handleStats call upserts are a subsequence of the      *)
(* fixed field order, each written once with the value of that snapshot,   *)
(* and no write of another call stands among them.                         *)
(***************************************************************************)
FieldOrder ==
    <<"InboundDataStat", "PacketsLostStat", "VideoBitrateStat", "AudioBitrateStat",
      "VideoResStat", "FramesDecodedStat", "FramerateStat", "FramesDroppedStat",
      "VideoCodecStat", "AudioCodecStat", "RTTStat", "DurationStat",
      "ControlsInputStat", "QPStat">>

FieldPosition(id) == CHOOSE i \in 1..Len(FieldOrder) : FieldOrder[i] = id

C10_FieldOrder ==
    last.op = "handleStats" =>
        /\ \A i \in 1..Len(writes) : \E k \in 1..Len(FieldOrder) : FieldOrder[k] = writes[i].id
        /\ \A i \in 1..(Len(writes) - 1) :
                FieldPosition(writes[i].id) < FieldPosition(writes[i + 1].id)
        /\ \A i \in 1..Len(writes) : Rendered(writes[i].id) = <<writes[i].html>>
        /\ Gate => Len(writes) >= 8

\* a snapshot that reports everything writes the fourteen stats in order
C10_Witness ==
    /\ last.op = "handleStats"
    /\ last.arg = FullStats
    /\ WriteIds = FieldOrder

====
